---- MODULE Spec2Model ----
(***************************************************************************)
(* Treasury contract (contracts/boxmeout/src/treasury.rs) together with    *)
(* the token ledger it transfers through (MockToken, test_treasury.rs).    *)
(*                                                                         *)
(* One action per entrypoint.  An entrypoint runs inside one host          *)
(* invocation: a panic anywhere in it (also inside the token's transfer)   *)
(* discards every storage write, ledger write and event of the             *)
(* invocation.  Each handler is therefore an operator that runs the        *)
(* handler's statements in order on a working copy of the persistent       *)
(* storage and of the ledger and returns the outcome; the action commits   *)
(* the working copy when the handler returned and keeps the old state      *)
(* when it panicked.  `last` records the inputs, the outcome, the          *)
(* transfers the handler performed before it ended (committed or not),     *)
(* the events it published and the state it started from.                  *)
(***************************************************************************)
EXTENDS Integers, Sequences, FiniteSets, TLC

VARIABLES storage, ledger, last

vars == <<storage, ledger, last>>

(***************************************************************************)
(* Bounds of the explored inputs.                                          *)
(***************************************************************************)
MaxSupply == 2
MaxPool == 2

(***************************************************************************)
(* Addresses.  Treasury is env.current_contract_address().                 *)
(***************************************************************************)
Treasury == "treasury"
Users == {"alice", "bob"}
Addresses == Users \cup {Treasury}
Payers == {"alice", Treasury}
Tokens == {"usdc", "usdc2"}
FundedTokens == {"usdc"}
Factories == {"factory"}
AuthSets == {{}} \cup {{u} : u \in Users}
PayerAuthSets == {{}} \cup {{u} : u \in Payers \cap Users}

(***************************************************************************)
(* Storage keys (treasury.rs 8-13).                                        *)
(***************************************************************************)
ADMIN_KEY == "admin"
USDC_KEY == "usdc"
FACTORY_KEY == "factory"
PLATFORM_FEES_KEY == "platform_fees"
LEADERBOARD_FEES_KEY == "leaderboard_fees"
CREATOR_FEES_KEY == "creator_fees"

BPS_TOTAL == 10000
U32_HALF == 65536
BIG_SHARE == 2147483647

(***************************************************************************)
(* env.storage().persistent(): a map from the keys that were set.          *)
(***************************************************************************)
Has(st, key) == key \in DOMAIN st

Put(st, key, val) ==
    [k \in (DOMAIN st) \cup {key} |-> IF k = key THEN val ELSE st[k]]

(* A missing key read as 1 instead of the default. *)
GetOrOne(st, key, default) == IF Has(st, key) THEN st[key] ELSE 1

GetOr(st, key, default) == IF Has(st, key) THEN st[key] ELSE default

EmptyStorage == [k \in {} |-> 0]

(***************************************************************************)
(* Accessors (treasury.rs 62-83): unwrap_or(0).                            *)
(***************************************************************************)
get_platform_fees(st) == GetOr(st, PLATFORM_FEES_KEY, 0)

get_leaderboard_fees(st) == GetOr(st, LEADERBOARD_FEES_KEY, 0)

get_creator_fees(st) == GetOr(st, CREATOR_FEES_KEY, 0)

(* A normal return whose published events are lost. *)
Returned_without_events(st, led, transfers, events) ==
    [ok |-> TRUE, err |-> "", storage |-> st, ledger |-> led,
     transfers |-> transfers, events |-> <<>>]

(***************************************************************************)
(* Outcome of a handler run on a working copy.                             *)
(***************************************************************************)
Returned(st, led, transfers, events) ==
    [ok |-> TRUE, err |-> "", storage |-> st, ledger |-> led,
     transfers |-> transfers, events |-> events]

Panicked(st, led, err, transfers) ==
    [ok |-> FALSE, err |-> err, storage |-> st, ledger |-> led,
     transfers |-> transfers, events |-> <<>>]

(* The authorization check left out. *)
require_auth_skipped(addr, auths) == TRUE

(***************************************************************************)
(* Address::require_auth: the invocation carries the authorization of the  *)
(* addresses in auths.                                                     *)
(***************************************************************************)
require_auth(addr, auths) == addr \in auths

(***************************************************************************)
(* The ledger enforces that `from` authorized the debit; a contract that   *)
(* calls the ledger directly authorizes debits of its own balance.         *)
(***************************************************************************)
LedgerAuthorized(from, invoker, auths) == from = invoker \/ from \in auths

(***************************************************************************)
(* MockToken::mint (test_treasury.rs 16-20).                               *)
(***************************************************************************)
mint(bal, to, amount) == [bal EXCEPT ![to] = bal[to] + amount]

(* The recipient credited without the sender being debited. *)
transfer_no_debit(bal, from, to, amount) ==
    IF bal[from] < amount
    THEN [ok |-> FALSE, err |-> "insufficient balance", bal |-> bal]
    ELSE [ok |-> TRUE, err |-> "", bal |-> [bal EXCEPT ![to] = bal[to] + amount]]

(* The sender debited without the recipient being credited. *)
transfer_no_credit(bal, from, to, amount) ==
    IF bal[from] < amount
    THEN [ok |-> FALSE, err |-> "insufficient balance", bal |-> bal]
    ELSE [ok |-> TRUE, err |-> "", bal |-> [bal EXCEPT ![from] = bal[from] - amount]]

(***************************************************************************)
(* MockToken::transfer (test_treasury.rs 22-35) on one token's balances.   *)
(* Both balances are read before either is written.                        *)
(***************************************************************************)
transfer(bal, from, to, amount) ==
    LET from_balance == bal[from]
        to_balance == bal[to]
    IN IF from_balance < amount
       THEN [ok |-> FALSE, err |-> "insufficient balance", bal |-> bal]
       ELSE [ok |-> TRUE, err |-> "",
             bal |-> [[bal EXCEPT ![from] = from_balance - amount]
                           EXCEPT ![to] = to_balance + amount]]

(* The outcome of the ledger call ignored: a refused transfer counts as made. *)
token_transfer_unchecked(led, token, from, to, amount, auths) ==
    IF ~LedgerAuthorized(from, Treasury, auths)
    THEN [ok |-> TRUE, err |-> "", ledger |-> led]
    ELSE LET t == transfer(led[token], from, to, amount)
         IN [ok |-> TRUE, err |-> "",
             ledger |-> [led EXCEPT ![token] = t.bal]]

(***************************************************************************)
(* token::Client::transfer as called by the Treasury (treasury.rs 104,     *)
(* 173): the ledger's authorization check, then the ledger's transfer.     *)
(***************************************************************************)
token_transfer(led, token, from, to, amount, auths) ==
    IF ~LedgerAuthorized(from, Treasury, auths)
    THEN [ok |-> FALSE, err |-> "Error(Auth, InvalidAction)", ledger |-> led]
    ELSE LET t == transfer(led[token], from, to, amount)
         IN [ok |-> t.ok, err |-> t.err,
             ledger |-> [led EXCEPT ![token] = t.bal]]

Moved(from, to, amount) == [from |-> from, to |-> to, amount |-> amount]

(* A second initialize refused once an administrator is stored. *)
initialize_once(st, led, admin, usdc_contract, factory, auths) ==
    IF ~require_auth(admin, auths)
    THEN Panicked(st, led, "Error(Auth, InvalidAction)", <<>>)
    ELSE IF Has(st, ADMIN_KEY)
    THEN Panicked(st, led, "Already initialized", <<>>)
    ELSE LET s1 == Put(st, ADMIN_KEY, admin)
             s2 == Put(s1, USDC_KEY, usdc_contract)
             s3 == Put(s2, FACTORY_KEY, factory)
             s4 == Put(s3, PLATFORM_FEES_KEY, 0)
             s5 == Put(s4, LEADERBOARD_FEES_KEY, 0)
             s6 == Put(s5, CREATOR_FEES_KEY, 0)
         IN Returned(s6, led, <<>>,
                     << <<"treasury_initialized", admin, usdc_contract, factory>> >>)

(***************************************************************************)
(* Treasury::initialize (treasury.rs 22-59).                               *)
(***************************************************************************)
initialize(st, led, admin, usdc_contract, factory, auths) ==
    IF ~require_auth(admin, auths)
    THEN Panicked(st, led, "Error(Auth, InvalidAction)", <<>>)
    ELSE LET s1 == Put(st, ADMIN_KEY, admin)
             s2 == Put(s1, USDC_KEY, usdc_contract)
             s3 == Put(s2, FACTORY_KEY, factory)
             s4 == Put(s3, PLATFORM_FEES_KEY, 0)
             s5 == Put(s4, LEADERBOARD_FEES_KEY, 0)
             s6 == Put(s5, CREATOR_FEES_KEY, 0)
         IN Returned(s6, led, <<>>,
                     << <<"treasury_initialized", admin, usdc_contract, factory>> >>)

(* Leaderboard fees routed to the platform pool. *)
CategoryKeyMisrouted(fee_category) ==
    IF fee_category = "platform" THEN PLATFORM_FEES_KEY
    ELSE IF fee_category = "leaderboard" THEN PLATFORM_FEES_KEY
    ELSE IF fee_category = "creator" THEN CREATOR_FEES_KEY
    ELSE "invalid"

(* An unknown category falling through to the creator pool. *)
CategoryKeyDefaultCreator(fee_category) ==
    IF fee_category = "platform" THEN PLATFORM_FEES_KEY
    ELSE IF fee_category = "leaderboard" THEN LEADERBOARD_FEES_KEY
    ELSE CREATOR_FEES_KEY

(***************************************************************************)
(* Fee category -> pool key (treasury.rs 107-115).                         *)
(***************************************************************************)
CategoryKey(fee_category) ==
    IF fee_category = "platform" THEN PLATFORM_FEES_KEY
    ELSE IF fee_category = "leaderboard" THEN LEADERBOARD_FEES_KEY
    ELSE IF fee_category = "creator" THEN CREATOR_FEES_KEY
    ELSE "invalid"

(* Only negative amounts rejected. *)
NonPositiveStrict(amount) == amount < 0

(***************************************************************************)
(* `amount <= 0` (treasury.rs 90).                                         *)
(***************************************************************************)
NonPositive(amount) == amount <= 0

(* The amount checked only after the transfer from the source. *)
deposit_fees_amount_checked_late(st, led, source, fee_category, amount, auths) ==
    IF ~Has(st, USDC_KEY)
    THEN Panicked(st, led, "USDC token not set", <<>>)
    ELSE LET usdc_token == st[USDC_KEY]
             t == token_transfer(led, usdc_token, source, Treasury, amount, auths)
             done == << Moved(source, Treasury, amount) >>
             key == CategoryKey(fee_category)
         IN IF ~t.ok
            THEN Panicked(st, led, t.err, <<>>)
            ELSE IF NonPositive(amount)
            THEN Panicked(st, t.ledger, "Fee amount must be positive", done)
            ELSE IF key = "invalid"
            THEN Panicked(st, t.ledger, "Invalid fee category", done)
            ELSE LET current_balance == GetOr(st, key, 0)
                 IN Returned(Put(st, key, current_balance + amount), t.ledger,
                             done, << <<"FeeDeposited", amount>> >>)

(***************************************************************************)
(* Treasury::deposit_fees (treasury.rs 89-126).                            *)
(***************************************************************************)
deposit_fees(st, led, source, fee_category, amount, auths) ==
    IF NonPositive(amount)
    THEN Panicked(st, led, "Fee amount must be positive", <<>>)
    ELSE IF ~Has(st, USDC_KEY)
    THEN Panicked(st, led, "USDC token not set", <<>>)
    ELSE LET usdc_token == st[USDC_KEY]
             t == token_transfer(led, usdc_token, source, Treasury, amount, auths)
             done == << Moved(source, Treasury, amount) >>
             key == CategoryKey(fee_category)
         IN IF ~t.ok
            THEN Panicked(st, led, t.err, <<>>)
            ELSE IF key = "invalid"
            THEN Panicked(st, t.ledger, "Invalid fee category", done)
            ELSE LET current_balance == GetOr(st, key, 0)
                 IN Returned(Put(st, key, current_balance + amount), t.ledger,
                             done, << <<"FeeDeposited", amount>> >>)

(***************************************************************************)
(* u32 arithmetic (treasury.rs 145-148).  TLC's integers are 32-bit signed, *)
(* so a u32 is held as two 16-bit halves, value = hi * U32_HALF + lo, and  *)
(* added half by half; carry out of the high half is the u32 overflow.     *)
(***************************************************************************)
U32(n) == [hi |-> n \div U32_HALF, lo |-> n % U32_HALF]

AddU32(a, b) ==
    LET lo == a.lo + b.lo
        hi == a.hi + b.hi + (lo \div U32_HALF)
    IN [overflow |-> hi >= U32_HALF,
        val |-> [hi |-> hi % U32_HALF, lo |-> lo % U32_HALF]]

(***************************************************************************)
(* `total_shares += share` for every entry (treasury.rs 145-148).  A build *)
(* with overflow checks panics when the sum leaves the u32 range; a build  *)
(* without them wraps modulo 2^32.  overflow_checks selects the build.     *)
(***************************************************************************)
RECURSIVE SumShares(_, _, _, _)
SumShares(rewards, i, total_shares, overflow_checks) ==
    IF i > Len(rewards)
    THEN [ok |-> TRUE, total |-> total_shares]
    ELSE LET sum == AddU32(total_shares, U32(rewards[i][2]))
         IN IF sum.overflow /\ overflow_checks
            THEN [ok |-> FALSE, total |-> total_shares]
            ELSE SumShares(rewards, i + 1, sum.val, overflow_checks)

(***************************************************************************)
(* i128 `/` truncates toward zero (treasury.rs 171).                       *)
(***************************************************************************)
TruncDiv(a, b) == IF a >= 0 THEN a \div b ELSE -((-a) \div b)

(* The payment of an entry rounded up instead of truncated. *)
ShareAmountRoundedUp(total_fees, share) ==
    total_fees * (share \div BPS_TOTAL)
        + TruncDiv(total_fees * (share % BPS_TOTAL) + (BPS_TOTAL - 1), BPS_TOTAL)

(***************************************************************************)
(* (total_fees * share as i128) / 10000 (treasury.rs 171).  With           *)
(* share = q * 10000 + r the quotient is total_fees * q plus the           *)
(* truncated total_fees * r / 10000, which keeps every intermediate value  *)
(* inside TLC's integers; the i128 product of the code cannot overflow     *)
(* for the pools explored here.                                            *)
(***************************************************************************)
ShareAmount(total_fees, share) ==
    total_fees * (share \div BPS_TOTAL)
        + TruncDiv(total_fees * (share % BPS_TOTAL), BPS_TOTAL)

(* A failed transfer logged and skipped instead of aborting the call. *)
RECURSIVE PayWinnersContinue(_, _, _, _, _, _, _, _)
PayWinnersContinue(led, usdc_token, total_fees, rewards, i, distributed_amount, done, auths) ==
    IF i > Len(rewards)
    THEN [ok |-> TRUE, err |-> "", ledger |-> led,
          distributed_amount |-> distributed_amount, transfers |-> done]
    ELSE LET winner == rewards[i][1]
             amount == ShareAmount(total_fees, rewards[i][2])
             t == token_transfer(led, usdc_token, Treasury, winner, amount, auths)
         IN IF amount > 0 /\ t.ok
            THEN PayWinnersContinue(t.ledger, usdc_token, total_fees, rewards, i + 1,
                                    distributed_amount + amount,
                                    Append(done, Moved(Treasury, winner, amount)),
                                    auths)
            ELSE PayWinnersContinue(led, usdc_token, total_fees, rewards, i + 1,
                                    distributed_amount, done, auths)

(***************************************************************************)
(* The payout loop (treasury.rs 168-176), from entry i on.                 *)
(***************************************************************************)
RECURSIVE PayWinners(_, _, _, _, _, _, _, _)
PayWinners(led, usdc_token, total_fees, rewards, i, distributed_amount, done, auths) ==
    IF i > Len(rewards)
    THEN [ok |-> TRUE, err |-> "", ledger |-> led,
          distributed_amount |-> distributed_amount, transfers |-> done]
    ELSE LET winner == rewards[i][1]
             share == rewards[i][2]
             amount == ShareAmount(total_fees, share)
         IN IF amount > 0
            THEN LET t == token_transfer(led, usdc_token, Treasury, winner, amount, auths)
                 IN IF ~t.ok
                    THEN [ok |-> FALSE, err |-> t.err, ledger |-> led,
                          distributed_amount |-> distributed_amount,
                          transfers |-> done]
                    ELSE PayWinners(t.ledger, usdc_token, total_fees, rewards, i + 1,
                                    distributed_amount + amount,
                                    Append(done, Moved(Treasury, winner, amount)),
                                    auths)
            ELSE PayWinners(led, usdc_token, total_fees, rewards, i + 1,
                            distributed_amount, done, auths)

(* The zero-pool short-circuit left out. *)
NothingToDistributeNever(total_fees) == FALSE

(***************************************************************************)
(* `total_fees == 0`: nothing to distribute (treasury.rs 155-157).         *)
(***************************************************************************)
NothingToDistribute(total_fees) == total_fees = 0

(* The pool blindly reset to zero after a distribution. *)
RemainingZeroed(total_fees, distributed_amount) == 0

(***************************************************************************)
(* `total_fees - distributed_amount` (treasury.rs 184).                    *)
(***************************************************************************)
Remaining(total_fees, distributed_amount) == total_fees - distributed_amount

(***************************************************************************)
(* Treasury::distribute_leaderboard (treasury.rs 135-194).                 *)
(***************************************************************************)
distribute_leaderboard(st, led, rewards, auths, overflow_checks) ==
    IF ~Has(st, ADMIN_KEY)
    THEN Panicked(st, led, "Admin not set", <<>>)
    ELSE IF ~require_auth(st[ADMIN_KEY], auths)
    THEN Panicked(st, led, "Error(Auth, InvalidAction)", <<>>)
    ELSE LET sum == SumShares(rewards, 1, U32(0), overflow_checks)
             total_fees == get_leaderboard_fees(st)
         IN IF ~sum.ok
            THEN Panicked(st, led, "attempt to add with overflow", <<>>)
            ELSE IF sum.total # U32(BPS_TOTAL)
            THEN Panicked(st, led, "Total shares must equal 10000 bps (100%)", <<>>)
            ELSE IF NothingToDistribute(total_fees)
            THEN Returned(st, led, <<>>, <<>>)
            ELSE IF ~Has(st, USDC_KEY)
            THEN Panicked(st, led, "USDC token not set", <<>>)
            ELSE LET p == PayWinners(led, st[USDC_KEY], total_fees, rewards, 1, 0,
                                     <<>>, auths)
                     remaining == Remaining(total_fees, p.distributed_amount)
                 IN IF ~p.ok
                    THEN Panicked(st, p.ledger, p.err, p.transfers)
                    ELSE Returned(Put(st, LEADERBOARD_FEES_KEY, remaining), p.ledger,
                                  p.transfers,
                                  << <<"LeaderboardDistributed", total_fees,
                                       Len(rewards)>> >>)

(***************************************************************************)
(* Inputs of the explored calls.                                           *)
(***************************************************************************)
Categories == {"platform", "leaderboard", "creator", "bogus"}

DepositAmounts == {0 - 1, 0, 1}

MintAmounts == {0 - 1, 1}

RewardLists ==
    { <<>>,
      << <<"alice", 10000>> >>,
      << <<"alice", 9000>> >>,
      << <<Treasury, 10000>> >>,
      << <<"alice", 5000>>, <<"bob", 5000>> >>,
      << <<"alice", 5000>>, <<"alice", 5000>> >>,
      << <<Treasury, 2500>>, <<"alice", 5000>>, <<Treasury, 2500>> >>,
      << <<"bob", 0>>, <<"alice", 10000>> >>,
      << <<"alice", 7500>>, <<"bob", 2500>> >>,
      << <<"alice", 3333>>, <<"bob", 3333>>, <<"alice", 3334>> >>,
      << <<"alice", BIG_SHARE>>, <<"bob", BIG_SHARE>>, <<"alice", 10002>> >> }

(***************************************************************************)
(* The builds that can tell a reward list apart: the overflow checks only  *)
(* matter to a list whose running share total leaves the u32 range.        *)
(***************************************************************************)
Builds(rewards) ==
    IF SumShares(rewards, 1, U32(0), TRUE).ok THEN {TRUE} ELSE BOOLEAN

(***************************************************************************)
(* The host commits the working copy of an invocation that returned and    *)
(* discards the working copy of one that panicked.                         *)
(***************************************************************************)
CommittedStorage(r) == IF r.ok THEN r.storage ELSE storage

CommittedLedger(r) == IF r.ok THEN r.ledger ELSE ledger

Pre == [storage |-> storage, ledger |-> ledger]

Call(op, args, r) ==
    [op |-> op, args |-> args, ok |-> r.ok, err |-> r.err,
     transfers |-> r.transfers, events |-> r.events, pre |-> Pre]

NoCall == [op |-> "none", args |-> <<>>, ok |-> TRUE, err |-> "",
           transfers |-> <<>>, events |-> <<>>,
           pre |-> [storage |-> EmptyStorage, ledger |-> <<>>]]

RECURSIVE SumOver(_, _)
SumOver(f, S) ==
    IF S = {} THEN 0
    ELSE LET x == CHOOSE y \in S : TRUE IN f[x] + SumOver(f, S \ {x})

InBounds(st, led) ==
    /\ \A t \in Tokens : \A a \in Addresses : led[t][a] >= 0
    /\ \A t \in Tokens : SumOver(led[t], Addresses) <= MaxSupply
    /\ get_platform_fees(st) + get_leaderboard_fees(st) + get_creator_fees(st)
           <= MaxPool

Init ==
    /\ storage = EmptyStorage
    /\ ledger = [t \in Tokens |-> [a \in Addresses |-> 0]]
    /\ last = NoCall

Mint ==
    \E token \in FundedTokens, to \in Payers, amount \in MintAmounts :
        /\ ledger' = [ledger EXCEPT ![token] = mint(ledger[token], to, amount)]
        /\ InBounds(storage, ledger')
        /\ last' = NoCall
        /\ UNCHANGED storage

Initialize ==
    \E admin \in Users, usdc_contract \in Tokens, factory \in Factories,
       auths \in AuthSets :
        LET r == initialize(storage, ledger, admin, usdc_contract, factory, auths)
        IN /\ storage' = CommittedStorage(r)
           /\ ledger' = CommittedLedger(r)
           /\ last' = Call("initialize",
                           [admin |-> admin, usdc_contract |-> usdc_contract,
                            factory |-> factory, auths |-> auths], r)

DepositFees ==
    \E source \in Payers, fee_category \in Categories, amount \in DepositAmounts,
       auths \in PayerAuthSets :
        LET r == deposit_fees(storage, ledger, source, fee_category, amount, auths)
        IN /\ storage' = CommittedStorage(r)
           /\ ledger' = CommittedLedger(r)
           /\ InBounds(storage', ledger')
           /\ last' = Call("deposit_fees",
                           [source |-> source, fee_category |-> fee_category,
                            amount |-> amount, auths |-> auths], r)

DistributeLeaderboard ==
    \E rewards \in RewardLists, auths \in AuthSets :
      \E overflow_checks \in Builds(rewards) :
        LET r == distribute_leaderboard(storage, ledger, rewards, auths,
                                        overflow_checks)
        IN /\ storage' = CommittedStorage(r)
           /\ ledger' = CommittedLedger(r)
           /\ InBounds(storage', ledger')
           /\ last' = Call("distribute_leaderboard",
                           [rewards |-> rewards, auths |-> auths,
                            overflow_checks |-> overflow_checks], r)

Next == Mint \/ Initialize \/ DepositFees \/ DistributeLeaderboard

Spec == Init /\ [][Next]_vars

(***************************************************************************)
(* A third specification in which nobody but the Treasury's own calls      *)
(* touches the Treasury's account: the only ledger activity outside the    *)
(* three entrypoints is the funding of the fee payers.                     *)
(***************************************************************************)
FundedPayers == Payers \ {Treasury}

FundAmounts == {amount \in MintAmounts : amount > 0}

Fund ==
    \E token \in FundedTokens, to \in FundedPayers, amount \in FundAmounts :
        /\ ledger' = [ledger EXCEPT ![token] = mint(ledger[token], to, amount)]
        /\ InBounds(storage, ledger')
        /\ last' = NoCall
        /\ UNCHANGED storage

NextFunded == Fund \/ Initialize \/ DepositFees \/ DistributeLeaderboard

SpecFunded == Init /\ [][NextFunded]_vars

(***************************************************************************)
(* A second specification with amounts large enough for the payments of a  *)
(* reward list whose u32 share total wraps to 10000: using i128 arithmetic *)
(* (treasury.rs 173) the list below pays 214748 + 214748 + 1 on a pool of  *)
(* 1.  The handlers are the same; only the inputs differ.                  *)
(***************************************************************************)
OverflowRewards ==
    << <<"alice", BIG_SHARE>>, <<"bob", BIG_SHARE>>, <<"alice", 10002>> >>

BIG_FEE == 2 * (BIG_SHARE \div BPS_TOTAL) + (10002 \div BPS_TOTAL)

LargeMintAmounts == {BIG_FEE + 1}

LargeDeposits == {<<"platform", BIG_FEE>>, <<"leaderboard", 1>>}

LargeRewardLists == {OverflowRewards, << <<"alice", 10000>> >>}

(***************************************************************************)
(* The leaderboard pool stays at most 1 so that the i128 products of the   *)
(* handler stay exact in TLC's integers; the Treasury holds at most one    *)
(* unit that no pool accounts for.  For the same reason the runs of this   *)
(* specification neither deposit nor distribute on a negative pool.        *)
(***************************************************************************)
InLargeBounds(st, led) ==
    /\ \A t \in Tokens : \A a \in Addresses : led[t][a] >= 0
    /\ \A t \in Tokens : SumOver(led[t], Addresses) <= BIG_FEE + 1
    /\ get_leaderboard_fees(st) <= 1
    /\ get_platform_fees(st) <= BIG_FEE
    /\ \A t \in FundedTokens :
           led[t][Treasury] - (get_platform_fees(st) + get_leaderboard_fees(st)
                               + get_creator_fees(st)) <= 1

MintLarge ==
    \E token \in FundedTokens, amount \in LargeMintAmounts :
        /\ ledger' = [ledger EXCEPT ![token] = mint(ledger[token], "alice", amount)]
        /\ InLargeBounds(storage, ledger')
        /\ last' = NoCall
        /\ UNCHANGED storage

DepositLarge ==
    \E deposit \in LargeDeposits :
        LET r == deposit_fees(storage, ledger, "alice", deposit[1], deposit[2],
                              {"alice"})
        IN /\ get_leaderboard_fees(storage) >= 0
           /\ storage' = CommittedStorage(r)
           /\ ledger' = CommittedLedger(r)
           /\ InLargeBounds(storage', ledger')
           /\ last' = Call("deposit_fees",
                           [source |-> "alice", fee_category |-> deposit[1],
                            amount |-> deposit[2], auths |-> {"alice"}], r)

DistributeLarge ==
    \E rewards \in LargeRewardLists, auths \in AuthSets :
      \E overflow_checks \in Builds(rewards) :
        LET r == distribute_leaderboard(storage, ledger, rewards, auths,
                                        overflow_checks)
        IN /\ get_leaderboard_fees(storage) >= 0
           /\ storage' = CommittedStorage(r)
           /\ ledger' = CommittedLedger(r)
           /\ InLargeBounds(storage', ledger')
           /\ last' = Call("distribute_leaderboard",
                           [rewards |-> rewards, auths |-> auths,
                            overflow_checks |-> overflow_checks], r)

NextLarge == MintLarge \/ Initialize \/ DepositLarge \/ DistributeLarge

SpecLarge == Init /\ [][NextLarge]_vars

(***************************************************************************)
(* Vocabulary of the properties: the call `last` records, the state it     *)
(* started from, and the payments a reward list calls for.                 *)
(***************************************************************************)
IsDeposit == last.op = "deposit_fees"

IsDistribute == last.op = "distribute_leaderboard"

PreStorage == last.pre.storage

PreLedger == last.pre.ledger

StateUnchanged == storage = PreStorage /\ ledger = PreLedger

PoolKeys == {PLATFORM_FEES_KEY, LEADERBOARD_FEES_KEY, CREATOR_FEES_KEY}

ConfigKeys == {ADMIN_KEY, USDC_KEY, FACTORY_KEY}

ConfigUnchanged ==
    \A k \in ConfigKeys :
        /\ Has(storage, k) <=> Has(PreStorage, k)
        /\ Has(storage, k) => storage[k] = PreStorage[k]

PoolBefore(key) == GetOr(PreStorage, key, 0)

PoolAfter(key) == GetOr(storage, key, 0)

AdminAuthorized ==
    Has(PreStorage, ADMIN_KEY) /\ PreStorage[ADMIN_KEY] \in last.args.auths

RECURSIVE ShareTotal(_, _)
ShareTotal(rewards, i) ==
    IF i > Len(rewards) THEN 0 ELSE rewards[i][2] + ShareTotal(rewards, i + 1)

(* The mathematical sum of the shares is 10000 (no share can then exceed it). *)
SharesSumTo10000(rewards) ==
    /\ \A i \in 1 .. Len(rewards) : rewards[i][2] <= 10000
    /\ ShareTotal(rewards, 1) = 10000

Floor(T, share) == (T * share) \div 10000

RECURSIVE Payments(_, _, _)
Payments(T, rewards, i) ==
    IF i > Len(rewards) THEN <<>>
    ELSE IF Floor(T, rewards[i][2]) > 0
    THEN << [from |-> Treasury, to |-> rewards[i][1],
             amount |-> Floor(T, rewards[i][2])] >> \o Payments(T, rewards, i + 1)
    ELSE Payments(T, rewards, i + 1)

RECURSIVE PaidTo(_, _, _)
PaidTo(S, moves, i) ==
    IF i > Len(moves) THEN 0
    ELSE (IF moves[i].to \in S THEN moves[i].amount ELSE 0) + PaidTo(S, moves, i + 1)

Winners(rewards) == {rewards[i][1] : i \in 1 .. Len(rewards)}

(***************************************************************************)
(* C1.  Dust conservation: a distribute_leaderboard that succeeds on a     *)
(* pool T > 0 with shares summing to exactly 10000 pays, in list order,    *)
(* floor(T * share / 10000) to every entry for which that is positive;     *)
(* the payments total at most T and the pool afterwards is T minus that    *)
(* total.                                                                  *)
(***************************************************************************)
C1_DustConservation ==
    LET T == PoolBefore(LEADERBOARD_FEES_KEY)
        rewards == last.args.rewards
    IN (IsDistribute /\ last.ok /\ T > 0 /\ SharesSumTo10000(rewards)) =>
          LET pay == Payments(T, rewards, 1)
              total == PaidTo(Addresses, pay, 1)
          IN /\ last.transfers = pay
             /\ total <= T
             /\ PoolAfter(LEADERBOARD_FEES_KEY) = T - total

(* A distribution that paid something and kept dust in the pool. *)
C1_Witness ==
    /\ IsDistribute /\ last.ok
    /\ SharesSumTo10000(last.args.rewards)
    /\ last.transfers # <<>>
    /\ PoolAfter(LEADERBOARD_FEES_KEY) > 0
    /\ PoolAfter(LEADERBOARD_FEES_KEY) < PoolBefore(LEADERBOARD_FEES_KEY)

(* The case of C2: the first payment can be paid, the whole list cannot. *)
C2_MidLoopFailure ==
    LET T == PoolBefore(LEADERBOARD_FEES_KEY)
        rewards == last.args.rewards
    IN /\ IsDistribute
       /\ AdminAuthorized
       /\ T > 0
       /\ SharesSumTo10000(rewards)
       /\ Treasury \notin Winners(rewards)
       /\ Has(PreStorage, USDC_KEY)
       /\ LET pay == Payments(T, rewards, 1)
              have == PreLedger[PreStorage[USDC_KEY]][Treasury]
          IN /\ pay # <<>>
             /\ pay[1].amount <= have
             /\ PaidTo(Addresses, pay, 1) > have

(***************************************************************************)
(* C2.  All-or-nothing distribution: when an authorized distribution with  *)
(* a valid list can pay its first payment out of the Treasury's balance    *)
(* but not all of them (no entry naming the Treasury itself), the call     *)
(* fails after having transferred to earlier winners, and afterwards       *)
(* every pool, the stored configuration and every ledger balance are as    *)
(* before the call and no event was published.                             *)
(***************************************************************************)
C2_AllOrNothing ==
    /\ C2_MidLoopFailure =>
           /\ ~last.ok
           /\ Len(last.transfers) >= 1
           /\ StateUnchanged
           /\ last.events = <<>>
    /\ (IsDistribute /\ ~last.ok) => (StateUnchanged /\ last.events = <<>>)

C2_Witness == C2_MidLoopFailure /\ ~last.ok /\ Len(last.transfers) >= 1

(***************************************************************************)
(* C3.  Once an admin is stored, a distribute_leaderboard call that does   *)
(* not carry that admin's authorization fails, whatever the list and the   *)
(* pool, and leaves the pools, the stored admin/asset/factory and every    *)
(* ledger balance unchanged.                                               *)
(***************************************************************************)
C3_UnauthorizedDistributeFails ==
    (IsDistribute /\ Has(PreStorage, ADMIN_KEY) /\ ~AdminAuthorized) =>
        /\ ~last.ok
        /\ last.err = "Error(Auth, InvalidAction)"
        /\ last.transfers = <<>>
        /\ last.events = <<>>
        /\ StateUnchanged

(* An unauthorized call with a valid list against a funded, non-empty pool. *)
C3_Witness ==
    /\ IsDistribute
    /\ Has(PreStorage, ADMIN_KEY)
    /\ ~AdminAuthorized
    /\ last.args.auths # {}
    /\ SharesSumTo10000(last.args.rewards)
    /\ PoolBefore(LEADERBOARD_FEES_KEY) > 0
    /\ PreLedger[PreStorage[USDC_KEY]][Treasury] >= PoolBefore(LEADERBOARD_FEES_KEY)
    /\ ~last.ok

(***************************************************************************)
(* C4.  An admin-authorized distribute_leaderboard whose shares do not sum *)
(* to 10000 fails with no transfer, no event and no change of state, also  *)
(* when the leaderboard pool is 0.                                         *)
(***************************************************************************)
C4_InvalidSharesFail ==
    (IsDistribute /\ AdminAuthorized /\ ~SharesSumTo10000(last.args.rewards)) =>
        /\ ~last.ok
        /\ last.transfers = <<>>
        /\ last.events = <<>>
        /\ StateUnchanged

(* The case of C5: authorized, valid shares, empty leaderboard pool. *)
C5_ZeroPoolCase ==
    /\ IsDistribute
    /\ AdminAuthorized
    /\ SharesSumTo10000(last.args.rewards)
    /\ PoolBefore(LEADERBOARD_FEES_KEY) = 0

(***************************************************************************)
(* C5.  An admin-authorized distribute_leaderboard with shares summing to  *)
(* 10000 against a leaderboard pool of 0 returns without a transfer or an  *)
(* event and leaves every pool and every ledger balance unchanged.         *)
(***************************************************************************)
C5_ZeroPoolNoOp ==
    C5_ZeroPoolCase =>
        /\ last.ok
        /\ last.transfers = <<>>
        /\ last.events = <<>>
        /\ StateUnchanged

(* The no-op taken while the Treasury holds funds of another pool. *)
C5_Witness ==
    /\ C5_ZeroPoolCase
    /\ last.ok
    /\ PoolBefore(PLATFORM_FEES_KEY) > 0
    /\ ledger[storage[USDC_KEY]][Treasury] > 0

(* The effect C6 states for a deposit. *)
DepositKey ==
    CASE last.args.fee_category = "platform" -> "platform_fees"
      [] last.args.fee_category = "leaderboard" -> "leaderboard_fees"
      [] last.args.fee_category = "creator" -> "creator_fees"
      [] OTHER -> "no pool"

DepositToken == PreStorage[USDC_KEY]

C6_DepositEffect ==
    /\ last.args.fee_category \in {"platform", "leaderboard", "creator"}
    /\ last.args.amount > 0
    /\ PoolAfter(DepositKey) = PoolBefore(DepositKey) + last.args.amount
    /\ \A k \in PoolKeys \ {DepositKey} : PoolAfter(k) = PoolBefore(k)
    /\ ConfigUnchanged
    /\ ledger[DepositToken][last.args.source]
           = PreLedger[DepositToken][last.args.source] - last.args.amount
    /\ ledger[DepositToken][Treasury]
           = PreLedger[DepositToken][Treasury] + last.args.amount

C7_DistributeEffect ==
    LET token == PreStorage[USDC_KEY]
    IN /\ PoolAfter(PLATFORM_FEES_KEY) = PoolBefore(PLATFORM_FEES_KEY)
       /\ PoolAfter(CREATOR_FEES_KEY) = PoolBefore(CREATOR_FEES_KEY)
       /\ ConfigUnchanged
       /\ ledger[token][Treasury]
              = PreLedger[token][Treasury] - PaidTo(Addresses, last.transfers, 1)
       /\ \A w \in Winners(last.args.rewards) :
              ledger[token][w] = PreLedger[token][w] + PaidTo({w}, last.transfers, 1)
       /\ \A a \in Addresses \ (Winners(last.args.rewards) \cup {Treasury}) :
              ledger[token][a] = PreLedger[token][a]
       /\ \A t \in Tokens \ {token} : ledger[t] = PreLedger[t]

C7_SuccessOnPool ==
    IsDistribute /\ last.ok /\ PoolBefore(LEADERBOARD_FEES_KEY) > 0

(* C7 as stated: every successful distribution on a pool T > 0 debits the  *)
(* Treasury by the sum of the payments, credits each winner by the         *)
(* payments of its entries and changes nothing but the leaderboard pool.   *)
C7_Original == C7_SuccessOnPool => C7_DistributeEffect

(* C7 amended: the same for every successful distribution whose list does  *)
(* not name the Treasury itself as a winner.                               *)
C7_DistributeFrame ==
    (C7_SuccessOnPool /\ Treasury \notin Winners(last.args.rewards))
        => C7_DistributeEffect

(* The scenario of the spec at scale: pool 2, two winners at 5000 bps. *)
C7_Witness ==
    /\ C7_SuccessOnPool
    /\ last.args.rewards = << <<"alice", 5000>>, <<"bob", 5000>> >>
    /\ PoolBefore(LEADERBOARD_FEES_KEY) = 2
    /\ PoolAfter(LEADERBOARD_FEES_KEY) = 0
    /\ ledger["usdc"]["alice"] = PreLedger["usdc"]["alice"] + 1
    /\ ledger["usdc"]["bob"] = PreLedger["usdc"]["bob"] + 1
    /\ ledger["usdc"][Treasury] = PreLedger["usdc"][Treasury] - 2

(***************************************************************************)
(* C8.  deposit_fees with amount <= 0 fails on the amount check, for every *)
(* source, category and state, before any transfer, and changes nothing.   *)
(***************************************************************************)
C8_NonPositiveAmountFails ==
    (IsDeposit /\ last.args.amount <= 0) =>
        /\ ~last.ok
        /\ last.err = "Fee amount must be positive"
        /\ last.transfers = <<>>
        /\ last.events = <<>>
        /\ StateUnchanged

(* Amount 0 from a funded, authorizing source into a valid category. *)
C8_Witness ==
    /\ IsDeposit
    /\ last.args.amount = 0
    /\ last.args.fee_category = "platform"
    /\ last.args.source \in last.args.auths
    /\ Has(PreStorage, USDC_KEY)
    /\ PreLedger[DepositToken][last.args.source] > 0
    /\ ~last.ok

(***************************************************************************)
(* C9.  deposit_fees with a category other than platform, leaderboard or   *)
(* creator fails and leaves every pool and every ledger balance as before  *)
(* the call, although the transfer precedes the category check.            *)
(***************************************************************************)
C9_InvalidCategoryFails ==
    (IsDeposit /\ last.args.fee_category \notin {"platform", "leaderboard", "creator"}) =>
        /\ ~last.ok
        /\ last.events = <<>>
        /\ StateUnchanged

(* The transfer had been made when the category was rejected. *)
C9_Witness ==
    /\ IsDeposit
    /\ last.args.fee_category = "bogus"
    /\ last.err = "Invalid fee category"
    /\ last.transfers = << Moved(last.args.source, Treasury, last.args.amount) >>
    /\ last.args.source # Treasury
    /\ StateUnchanged

(* The case of C10: the ledger refuses the transfer of the deposit. *)
C10_Underfunded ==
    PreLedger[DepositToken][last.args.source] < last.args.amount

C10_NotAuthorizedBySource ==
    last.args.source # Treasury /\ last.args.source \notin last.args.auths

C10_TransferRefused ==
    /\ IsDeposit
    /\ last.args.amount > 0
    /\ Has(PreStorage, USDC_KEY)
    /\ C10_Underfunded \/ C10_NotAuthorizedBySource

(***************************************************************************)
(* C10.  When the ledger refuses the transfer of a deposit (the source     *)
(* holds less than amount, or did not authorize the debit), the call       *)
(* fails: no pool is incremented, no balance changes, no event.            *)
(***************************************************************************)
C10_FailedTransferAborts ==
    C10_TransferRefused =>
        /\ ~last.ok
        /\ last.err \in {"insufficient balance", "Error(Auth, InvalidAction)"}
        /\ last.transfers = <<>>
        /\ last.events = <<>>
        /\ StateUnchanged

(* An authorized deposit into a valid category the source cannot fund. *)
C10_Witness ==
    /\ C10_TransferRefused
    /\ C10_Underfunded
    /\ ~C10_NotAuthorizedBySource
    /\ last.args.fee_category = "leaderboard"
    /\ last.err = "insufficient balance"

(***************************************************************************)
(* C11: in every reachable state each of the three pools (platform fees,   *)
(* leaderboard fees, creator fees) is greater than or equal to zero.       *)
(***************************************************************************)
C11_PoolsNonNegative ==
    /\ get_platform_fees(storage) >= 0
    /\ get_leaderboard_fees(storage) >= 0
    /\ get_creator_fees(storage) >= 0

(***************************************************************************)
(* C12: initialize has no guard against repetition.  At any point of a     *)
(* run, first call or not, initialize(admin', asset', factory') carrying   *)
(* the authorization of admin' succeeds whoever the stored administrator   *)
(* was: it stores admin', asset' and factory', sets the three pools to 0   *)
(* whatever they held, and leaves every ledger balance unchanged.          *)
(***************************************************************************)
IsInitialize == last.op = "initialize"

C12_AuthorizedByNewAdmin == IsInitialize /\ last.args.admin \in last.args.auths

C12_InitializeEffect ==
    /\ last.ok
    /\ \A k \in ConfigKeys \cup PoolKeys : Has(storage, k)
    /\ storage[ADMIN_KEY] = last.args.admin
    /\ storage[USDC_KEY] = last.args.usdc_contract
    /\ storage[FACTORY_KEY] = last.args.factory
    /\ \A k \in PoolKeys : storage[k] = 0
    /\ ledger = PreLedger

C12_ReinitializeSucceeds == C12_AuthorizedByNewAdmin => C12_InitializeEffect

C12_Witness ==
    /\ C12_AuthorizedByNewAdmin
    /\ Has(PreStorage, ADMIN_KEY)
    /\ PreStorage[ADMIN_KEY] # last.args.admin
    /\ PreStorage[ADMIN_KEY] \notin last.args.auths
    /\ PreStorage[USDC_KEY] # last.args.usdc_contract
    /\ PoolBefore(LEADERBOARD_FEES_KEY) > 0
    /\ PoolBefore(PLATFORM_FEES_KEY) > 0
    /\ PreLedger[PreStorage[USDC_KEY]][Treasury] > 0
    /\ C12_InitializeEffect

(***************************************************************************)
(* C13: every successful deposit_fees publishes exactly one event, which   *)
(* carries the deposited amount; every successful distribute_leaderboard   *)
(* that found a non-zero pool publishes exactly one event, which carries   *)
(* the pool value read before the payouts and the length of the reward     *)
(* list (entries paid nothing are counted); a failed call and a            *)
(* distribution on a zero pool publish no event.                           *)
(***************************************************************************)
C13_DepositEvent ==
    (IsDeposit /\ last.ok)
        => last.events = << <<"FeeDeposited", last.args.amount>> >>

C13_DistributeEvent ==
    (IsDistribute /\ last.ok /\ PoolBefore(LEADERBOARD_FEES_KEY) # 0)
        => last.events = << <<"LeaderboardDistributed",
                              PoolBefore(LEADERBOARD_FEES_KEY),
                              Len(last.args.rewards)>> >>

C13_NoEvent ==
    /\ ~last.ok => last.events = <<>>
    /\ (IsDistribute /\ PoolBefore(LEADERBOARD_FEES_KEY) = 0)
           => last.events = <<>>

C14_FreshDeposit ==
    /\ IsDeposit /\ last.ok
    /\ \A k \in PoolKeys : Has(PreStorage, k) /\ PreStorage[k] = 0

C14_LeaderboardGetsThirtyPercent ==
    C14_FreshDeposit
        => 100 * PoolAfter(LEADERBOARD_FEES_KEY) = 30 * last.args.amount

(***************************************************************************)
(* C15: a call that fails for a non-positive amount or for a share total   *)
(* other than 10000 fails before any mutation: no ledger transfer and no   *)
(* pool write was performed at any step of the call.  A call that fails    *)
(* for an unrecognized category fails after the transfer from the source   *)
(* to the Treasury was performed inside the invocation; the abort discards *)
(* that transfer, so the committed state is unchanged all the same.        *)
(***************************************************************************)
C15_AmountError == "Fee amount must be positive"

C15_CategoryError == "Invalid fee category"

C15_SharesError == "Total shares must equal 10000 bps (100%)"

C15_NothingPerformed ==
    /\ last.transfers = <<>>
    /\ last.events = <<>>
    /\ StateUnchanged

\* The claim as stated: all three validation failures precede any mutation.
C15_Original ==
    (~last.ok /\ last.err \in {C15_AmountError, C15_CategoryError, C15_SharesError})
        => C15_NothingPerformed

C15_ValidationAborts ==
    /\ (IsDeposit /\ last.args.amount <= 0)
           => (~last.ok /\ last.err = C15_AmountError /\ C15_NothingPerformed)
    /\ (~last.ok /\ last.err = C15_SharesError) => C15_NothingPerformed
    /\ (~last.ok /\ last.err = C15_CategoryError)
           => /\ last.transfers
                     = << Moved(last.args.source, Treasury, last.args.amount) >>
              /\ last.events = <<>>
              /\ StateUnchanged

C15_Witness ==
    /\ IsDeposit /\ ~last.ok /\ last.err = C15_CategoryError
    /\ last.args.source # Treasury
    /\ Len(last.transfers) = 1
    /\ StateUnchanged
    /\ PreLedger[PreStorage[USDC_KEY]][last.args.source] > 0

(***************************************************************************)
(* C16: a reward list is accepted by the share check only if the           *)
(* mathematical (unbounded integer) sum of its shares is exactly 10000:    *)
(* the u32 accumulation lets no list with another true sum pass, so every  *)
(* entry of an accepted list has a share between 0 and 10000.              *)
(***************************************************************************)
C16_PassedShareCheck ==
    /\ IsDistribute /\ AdminAuthorized
    /\ last.err \notin {"attempt to add with overflow", C15_SharesError}

C16_EntriesWithinRange ==
    \A i \in 1 .. Len(last.args.rewards) :
        /\ last.args.rewards[i][2] >= 0
        /\ last.args.rewards[i][2] <= BPS_TOTAL

C16_OnlyExactTotalAccepted ==
    C16_PassedShareCheck
        => (SharesSumTo10000(last.args.rewards) /\ C16_EntriesWithinRange)

(***************************************************************************)
(* C17: the reward list is processed in order without deduplication.  A    *)
(* recipient other than the Treasury itself that appears in several        *)
(* entries receives one transfer per entry with a non-zero payment, so its *)
(* balance grows by the sum of floor(T * share / 10000) over its entries,  *)
(* which can differ from floor(T * combined share / 10000).                *)
(***************************************************************************)
RECURSIVE SumOfFloors(_, _, _, _)
SumOfFloors(T, rewards, w, i) ==
    IF i > Len(rewards) THEN 0
    ELSE (IF rewards[i][1] = w THEN Floor(T, rewards[i][2]) ELSE 0)
             + SumOfFloors(T, rewards, w, i + 1)

RECURSIVE CombinedShare(_, _, _)
CombinedShare(rewards, w, i) ==
    IF i > Len(rewards) THEN 0
    ELSE (IF rewards[i][1] = w THEN rewards[i][2] ELSE 0)
             + CombinedShare(rewards, w, i + 1)

EntriesOf(rewards, w) == {i \in 1 .. Len(rewards) : rewards[i][1] = w}

C17_SuccessOnPool ==
    IsDistribute /\ last.ok /\ PoolBefore(LEADERBOARD_FEES_KEY) > 0

C17_Gain(w) ==
    ledger[PreStorage[USDC_KEY]][w] - PreLedger[PreStorage[USDC_KEY]][w]

C17_PaidPerEntry(w) ==
    C17_Gain(w) = SumOfFloors(PoolBefore(LEADERBOARD_FEES_KEY),
                              last.args.rewards, w, 1)

C17_OneTransferPerEntry ==
    last.transfers = Payments(PoolBefore(LEADERBOARD_FEES_KEY),
                              last.args.rewards, 1)

\* The claim as stated: every recipient, the Treasury included.
C17_Original ==
    C17_SuccessOnPool
        => /\ C17_OneTransferPerEntry
           /\ \A w \in Winners(last.args.rewards) : C17_PaidPerEntry(w)

C17_NoDeduplication ==
    C17_SuccessOnPool
        => /\ C17_OneTransferPerEntry
           /\ \A w \in Winners(last.args.rewards) \ {Treasury} :
                  C17_PaidPerEntry(w)

C17_Witness ==
    /\ C17_SuccessOnPool
    /\ \E w \in Winners(last.args.rewards) \ {Treasury} :
           /\ Cardinality(EntriesOf(last.args.rewards, w)) >= 2
           /\ C17_PaidPerEntry(w)
           /\ C17_Gain(w) # Floor(PoolBefore(LEADERBOARD_FEES_KEY),
                                  CombinedShare(last.args.rewards, w, 1))

(***************************************************************************)
(* C18: before any successful initialize, deposit_fees with a positive     *)
(* amount fails because the asset ledger is not set and                    *)
(* distribute_leaderboard fails because the administrator is not set, each *)
(* with no transfer and no state change, and the three accessors return 0; *)
(* a deposit of a non-positive amount fails with the amount error, since   *)
(* the amount is checked first.                                            *)
(***************************************************************************)
C18_NeverInitialized == PreStorage = EmptyStorage

C18_DepositBeforeInitialize ==
    (IsDeposit /\ C18_NeverInitialized)
        => /\ ~last.ok
           /\ last.err = (IF last.args.amount > 0 THEN "USDC token not set"
                          ELSE "Fee amount must be positive")
           /\ C15_NothingPerformed

C18_DistributeBeforeInitialize ==
    (IsDistribute /\ C18_NeverInitialized)
        => (~last.ok /\ last.err = "Admin not set" /\ C15_NothingPerformed)

C18_AccessorsBeforeInitialize ==
    storage = EmptyStorage
        => /\ get_platform_fees(storage) = 0
           /\ get_leaderboard_fees(storage) = 0
           /\ get_creator_fees(storage) = 0

C18_UninitializedFails ==
    /\ C18_DepositBeforeInitialize
    /\ C18_DistributeBeforeInitialize
    /\ C18_AccessorsBeforeInitialize

C18_Witness ==
    /\ IsDeposit /\ C18_NeverInitialized
    /\ last.args.amount > 0
    /\ last.args.source \in last.args.auths
    /\ PreLedger["usdc"][last.args.source] >= last.args.amount
    /\ last.err = "USDC token not set"
    /\ storage = EmptyStorage
    /\ get_leaderboard_fees(storage) = 0

(***************************************************************************)
(* C19: solvency.  In every state reached by initialize, deposit_fees and  *)
(* distribute_leaderboard calls, repeated initialize included, with no     *)
(* other party debiting the Treasury's account, the Treasury's balance on  *)
(* the stored asset ledger is at least the sum of the three pools; hence   *)
(* no transfer of an authorized distribution with shares summing to 10000  *)
(* fails for insufficient Treasury balance.  A deposit from a source other *)
(* than the Treasury and a distribution whose list does not name the       *)
(* Treasury preserve equality of balance and pool sum; a repeated          *)
(* initialize that zeroes non-empty pools leaves the balance on the asset  *)
(* ledger stored until then strictly above the zeroed pool sum.            *)
(***************************************************************************)
PoolSum(st) ==
    get_platform_fees(st) + get_leaderboard_fees(st) + get_creator_fees(st)

TreasuryBalance(st, led) == led[st[USDC_KEY]][Treasury]

C19_Solvent ==
    Has(storage, USDC_KEY) => TreasuryBalance(storage, ledger) >= PoolSum(storage)

C19_NeverShortOfFunds ==
    (IsDistribute /\ AdminAuthorized /\ SharesSumTo10000(last.args.rewards))
        => last.err # "insufficient balance"

C19_EqualBefore ==
    /\ last.op # "none"
    /\ Has(PreStorage, USDC_KEY)
    /\ TreasuryBalance(PreStorage, PreLedger) = PoolSum(PreStorage)

C19_EqualNow == TreasuryBalance(storage, ledger) = PoolSum(storage)

C19_ZeroingInitialize ==
    /\ IsInitialize /\ last.ok
    /\ Has(PreStorage, USDC_KEY)
    /\ PoolSum(PreStorage) > 0

C20_SuccessOnPool ==
    IsDistribute /\ last.ok /\ PoolBefore(LEADERBOARD_FEES_KEY) > 0

C20_SingleFullEntry ==
    /\ Len(last.args.rewards) = 1
    /\ last.args.rewards[1][2] = 10000

C20_TwoHalvesOnOne ==
    /\ PoolBefore(LEADERBOARD_FEES_KEY) = 1
    /\ Len(last.args.rewards) = 2
    /\ \A i \in 1 .. 2 : last.args.rewards[i][2] = 5000

C20_DustBound ==
    C20_SuccessOnPool
        => /\ PoolAfter(LEADERBOARD_FEES_KEY) >= 0
           /\ PoolAfter(LEADERBOARD_FEES_KEY) <= Len(last.args.rewards) - 1
           /\ C20_SingleFullEntry => PoolAfter(LEADERBOARD_FEES_KEY) = 0
           /\ C20_TwoHalvesOnOne
                  => /\ PoolAfter(LEADERBOARD_FEES_KEY) = 1
                     /\ last.transfers = <<>>
                     /\ Len(last.events) = 1

====
